---- MODULE Spec2Model ----
(***************************************************************************)
(* Model of the audience-service benchmark harness (main.go) and of the    *)
(* test-data generator (init.sql, populate_test_data).                     *)
(*                                                                         *)
(* Spec     : one run of main(); the database's answers (errors, counts,   *)
(*            elapsed times) are inputs drawn from small sets.             *)
(* SpecData : populate_test_data on an empty database followed by the four *)
(*            counting queries of main.go evaluated on the tables.         *)
(*                                                                         *)
(* Durations are time.Duration values, i.e. integer nanoseconds.           *)
(* float64 quotients are modelled as exact fractions in lowest terms; the  *)
(* dataset sizes of UserCountValues are chosen so that the scale factor    *)
(* 10000000/N is exactly representable in binary64 (100 and 2.5), where    *)
(* the floating-point computation coincides with the exact one.            *)
(***************************************************************************)
EXTENDS Integers, Sequences, FiniteSets, TLC

VARIABLES pc, userCount, count1, duration1, count2, duration2,
          count3, duration3, count4, duration4, count5, duration5,
          output, calls, failed,
          users, user_attributes, user_profiles, results, dpc

runVars  == <<pc, userCount, count1, duration1, count2, duration2,
              count3, duration3, count4, duration4, count5, duration5,
              output, calls, failed>>
dataVars == <<users, user_attributes, user_profiles, results, dpc>>
vars     == <<pc, userCount, count1, duration1, count2, duration2,
              count3, duration3, count4, duration4, count5, duration5,
              output, calls, failed,
              users, user_attributes, user_profiles, results, dpc>>

(***************************************************************************)
(* Bounds                                                                  *)
(***************************************************************************)
MaxPlanRows == 2
MaxUsers == 2

(***************************************************************************)
(* Program constants                                                       *)
(***************************************************************************)
TargetUsers == 10000000
Second == 1000000000
Budget == 2 * Second

(***************************************************************************)
(* Inputs: what the database may answer                                    *)
(***************************************************************************)
UserCountValues == {0, 100000, 4000000, 10000000, 20000000}
CountValues     == {40}
Duration1Values == {0, 114000000}
Duration2Values == {0, 3, 19000000, 20000000}
Duration3Values == {0, 424000000}
Duration4Values == {0, 12000000, 2000000000}
Duration5Values == {5000000}
PlanRowValues   == {"ok", "scanerr"}

(***************************************************************************)
(* float64 arithmetic on the values the run meets                          *)
(***************************************************************************)
RECURSIVE GCD(_, _)
GCD(a, b) == IF b = 0 THEN a ELSE GCD(b, a % b)

\* float64(a) / float64(b) for a > 0 or b > 0; den = 0 stands for +Inf
Ratio(a, b) == LET g == GCD(a, b) IN [num |-> a \div g, den |-> b \div g]

\* variant of TruncMul: the product is rounded up instead of truncated
TruncMul_ceil(d, r) == (d * r.num + r.den - 1) \div r.den

\* time.Duration(float64(d) * r) for a finite r: truncation toward zero
TruncMul(d, r) == (d \div r.den) * r.num + ((d % r.den) * r.num) \div r.den

\* time.Duration(+Inf): implementation-dependent result of the conversion
InfConversions == {"minint64", "maxint64"}

Append2(s, a, b) == Append(Append(s, a), b)

(***************************************************************************)
(* Output lines                                                            *)
(***************************************************************************)
ErrorLine(what)        == [kind |-> "error", what |-> what]
MeasureLine(q, c, d)   == [kind |-> "measure", query |-> q, count |-> c, duration |-> d]
HeaderLine(t)          == [kind |-> "header", test |-> t]
SpeedupLine(s, r)      == [kind |-> "speedup", scenario |-> s, value |-> r]
PlanLine(i)            == [kind |-> "plan", row |-> i]
AverageLine(r)         == [kind |-> "average", value |-> r]
TargetLine(b)          == [kind |-> "target_achieved", value |-> b]
EstimateLine(v, s)     == [kind |-> "estimate", value |-> v, sat |-> s]
VerdictLine(b)         == [kind |-> "verdict", value |-> b]
DatasetLine(k, n)      == [kind |-> k, users |-> n]
TextLine(k)            == [kind |-> k]

\* the if/else after each timed query: log.Printf of the error, or the result line
TimedOutput(out, q, e, c, d) ==
    Append(out, IF e THEN ErrorLine(q) ELSE MeasureLine(q, c, d))

(***************************************************************************)
(* State after process start / after the schema DDL of init.sql            *)
(***************************************************************************)
Init ==
    /\ pc = "start"
    /\ userCount = 0
    /\ count1 = 0 /\ duration1 = 0
    /\ count2 = 0 /\ duration2 = 0
    /\ count3 = 0 /\ duration3 = 0
    /\ count4 = 0 /\ duration4 = 0
    /\ count5 = 0 /\ duration5 = 0
    /\ output = <<>>
    /\ calls = <<>>
    /\ failed = {}
    /\ users = {}
    /\ user_attributes = {}
    /\ user_profiles = {}
    /\ results = [oldEAVQuery |-> 0, optimizedQuery |-> 0,
                  oldEAVComplexQuery |-> 0, optimizedComplexQuery |-> 0]
    /\ dpc = "empty"

(***************************************************************************)
(* main(), one action per step                                             *)
(***************************************************************************)
\* main.go:151-158  banner, connectDB(), log.Fatal on error
ConnectDB ==
    /\ pc = "start"
    /\ calls' = Append(calls, "open")
    /\ \E e \in BOOLEAN :
         IF e
         THEN /\ output' = Append(Append2(output, TextLine("banner"), TextLine("rule")),
                                  ErrorLine("open"))
              /\ failed' = failed \cup {"open"}
              /\ pc' = "fatal"
         ELSE /\ output' = Append2(output, TextLine("banner"), TextLine("rule"))
              /\ failed' = failed
              /\ pc' = "ping"
    /\ UNCHANGED <<userCount, count1, duration1, count2, duration2, count3, duration3,
                   count4, duration4, count5, duration5>>
    /\ UNCHANGED dataVars

\* variant of Ping: a failed ping is logged and the run goes on
Ping_continue ==
    /\ pc = "ping"
    /\ calls' = Append(calls, "ping")
    /\ \E e \in BOOLEAN :
         IF e
         THEN /\ output' = Append(output, ErrorLine("ping"))
              /\ failed' = failed \cup {"ping"}
              /\ pc' = "count"
         ELSE /\ output' = Append(output, TextLine("connected"))
              /\ failed' = failed
              /\ pc' = "count"
    /\ UNCHANGED <<userCount, count1, duration1, count2, duration2, count3, duration3,
                   count4, duration4, count5, duration5>>
    /\ UNCHANGED dataVars

\* main.go:160-164  db.Ping(), log.Fatal on error
Ping ==
    /\ pc = "ping"
    /\ calls' = Append(calls, "ping")
    /\ \E e \in BOOLEAN :
         IF e
         THEN /\ output' = Append(output, ErrorLine("ping"))
              /\ failed' = failed \cup {"ping"}
              /\ pc' = "fatal"
         ELSE /\ output' = Append(output, TextLine("connected"))
              /\ failed' = failed
              /\ pc' = "count"
    /\ UNCHANGED <<userCount, count1, duration1, count2, duration2, count3, duration3,
                   count4, duration4, count5, duration5>>
    /\ UNCHANGED dataVars

\* main.go:166-168  the dataset-size query; the error of Scan is dropped
CountUsers ==
    /\ pc = "count"
    /\ calls' = Append(calls, "count")
    /\ \E e \in BOOLEAN, n \in UserCountValues :
         /\ userCount' = IF e THEN 0 ELSE n
         /\ failed' = IF e THEN failed \cup {"count"} ELSE failed
    /\ output' = Append(output, DatasetLine("dataset", userCount'))
    /\ pc' = "test1_eav"
    /\ UNCHANGED <<count1, duration1, count2, duration2, count3, duration3,
                   count4, duration4, count5, duration5>>
    /\ UNCHANGED dataVars

\* variant of Test1EAV: a failed EAV arm skips the optimized arm of the scenario
Test1EAV_abort ==
    /\ pc = "test1_eav"
    /\ calls' = Append(calls, "oldEAVQuery")
    /\ \E e \in BOOLEAN, c \in CountValues, d \in Duration1Values :
         /\ count1' = IF e THEN 0 ELSE c
         /\ duration1' = d
         /\ failed' = IF e THEN failed \cup {"oldEAVQuery"} ELSE failed
         /\ output' = TimedOutput(Append2(output, HeaderLine(1), TextLine("rule")),
                                  "oldEAVQuery", e, count1', d)
         /\ pc' = IF e THEN "test2_eav" ELSE "test1_opt"
    /\ UNCHANGED <<userCount, count2, duration2, count3, duration3,
                   count4, duration4, count5, duration5>>
    /\ UNCHANGED dataVars

\* main.go:170-178  header of test 1, oldEAVQuery
Test1EAV ==
    /\ pc = "test1_eav"
    /\ calls' = Append(calls, "oldEAVQuery")
    /\ \E e \in BOOLEAN, c \in CountValues, d \in Duration1Values :
         /\ count1' = IF e THEN 0 ELSE c
         /\ duration1' = d
         /\ failed' = IF e THEN failed \cup {"oldEAVQuery"} ELSE failed
         /\ output' = TimedOutput(Append2(output, HeaderLine(1), TextLine("rule")),
                                  "oldEAVQuery", e, count1', d)
    /\ pc' = "test1_opt"
    /\ UNCHANGED <<userCount, count2, duration2, count3, duration3,
                   count4, duration4, count5, duration5>>
    /\ UNCHANGED dataVars

\* main.go:180-185  optimizedQuery
Test1Optimized ==
    /\ pc = "test1_opt"
    /\ calls' = Append(calls, "optimizedQuery")
    /\ \E e \in BOOLEAN, c \in CountValues, d \in Duration2Values :
         /\ count2' = IF e THEN 0 ELSE c
         /\ duration2' = d
         /\ failed' = IF e THEN failed \cup {"optimizedQuery"} ELSE failed
         /\ output' = TimedOutput(output, "optimizedQuery", e, count2', d)
    /\ pc' = "test1_speedup"
    /\ UNCHANGED <<userCount, count1, duration1, count3, duration3,
                   count4, duration4, count5, duration5>>
    /\ UNCHANGED dataVars

\* variant of Test1Speedup: the quotient is taken the other way round
Test1Speedup_inverted ==
    /\ pc = "test1_speedup"
    /\ output' = IF duration1 > 0 /\ duration2 > 0
                 THEN Append(output, SpeedupLine(1, Ratio(duration2, duration1)))
                 ELSE output
    /\ pc' = "test2_eav"
    /\ UNCHANGED <<userCount, count1, duration1, count2, duration2, count3, duration3,
                   count4, duration4, count5, duration5, calls, failed>>
    /\ UNCHANGED dataVars

\* main.go:187-190  speedup of test 1
Test1Speedup ==
    /\ pc = "test1_speedup"
    /\ output' = IF duration1 > 0 /\ duration2 > 0
                 THEN Append(output, SpeedupLine(1, Ratio(duration1, duration2)))
                 ELSE output
    /\ pc' = "test2_eav"
    /\ UNCHANGED <<userCount, count1, duration1, count2, duration2, count3, duration3,
                   count4, duration4, count5, duration5, calls, failed>>
    /\ UNCHANGED dataVars

\* main.go:192-200  header of test 2, oldEAVComplexQuery
Test2EAV ==
    /\ pc = "test2_eav"
    /\ calls' = Append(calls, "oldEAVComplexQuery")
    /\ \E e \in BOOLEAN, c \in CountValues, d \in Duration3Values :
         /\ count3' = IF e THEN 0 ELSE c
         /\ duration3' = d
         /\ failed' = IF e THEN failed \cup {"oldEAVComplexQuery"} ELSE failed
         /\ output' = TimedOutput(Append2(output, HeaderLine(2), TextLine("rule")),
                                  "oldEAVComplexQuery", e, count3', d)
    /\ pc' = "test2_opt"
    /\ UNCHANGED <<userCount, count1, duration1, count2, duration2,
                   count4, duration4, count5, duration5>>
    /\ UNCHANGED dataVars

\* main.go:202-207  optimizedComplexQuery
Test2Optimized ==
    /\ pc = "test2_opt"
    /\ calls' = Append(calls, "optimizedComplexQuery")
    /\ \E e \in BOOLEAN, c \in CountValues, d \in Duration4Values :
         /\ count4' = IF e THEN 0 ELSE c
         /\ duration4' = d
         /\ failed' = IF e THEN failed \cup {"optimizedComplexQuery"} ELSE failed
         /\ output' = TimedOutput(output, "optimizedComplexQuery", e, count4', d)
    /\ pc' = "test2_speedup"
    /\ UNCHANGED <<userCount, count1, duration1, count2, duration2, count3, duration3,
                   count5, duration5>>
    /\ UNCHANGED dataVars

\* main.go:209-212  speedup of test 2
Test2Speedup ==
    /\ pc = "test2_speedup"
    /\ output' = IF duration3 > 0 /\ duration4 > 0
                 THEN Append(output, SpeedupLine(2, Ratio(duration3, duration4)))
                 ELSE output
    /\ pc' = "test3"
    /\ UNCHANGED <<userCount, count1, duration1, count2, duration2, count3, duration3,
                   count4, duration4, count5, duration5, calls, failed>>
    /\ UNCHANGED dataVars

\* main.go:214-222  header of test 3, optimizedANDQuery
Test3Optimized ==
    /\ pc = "test3"
    /\ calls' = Append(calls, "optimizedANDQuery")
    /\ \E e \in BOOLEAN, c \in CountValues, d \in Duration5Values :
         /\ count5' = IF e THEN 0 ELSE c
         /\ duration5' = d
         /\ failed' = IF e THEN failed \cup {"optimizedANDQuery"} ELSE failed
         /\ output' = TimedOutput(Append2(output, HeaderLine(3), TextLine("rule")),
                                  "optimizedANDQuery", e, count5', d)
    /\ pc' = "explain"
    /\ UNCHANGED <<userCount, count1, duration1, count2, duration2, count3, duration3,
                   count4, duration4>>
    /\ UNCHANGED dataVars

\* the result sets EXPLAIN ANALYZE may deliver: each row scans or fails to scan
PlanResults == UNION {[1..n -> PlanRowValues] : n \in 0..MaxPlanRows}

\* main.go:141-147  the rows.Next loop: a row whose Scan fails is skipped
PlanLines(rows) ==
    LET idx  == [i \in 1..Len(rows) |-> i]
        good == SelectSeq(idx, LAMBDA i : rows[i] = "ok")
    IN  [j \in 1..Len(good) |-> PlanLine(good[j])]

\* main.go:131-148  explainQuery: what it writes
explainQuery(out, e, rows) ==
    IF e THEN Append(out, ErrorLine("explain"))
         ELSE Append(out, TextLine("plan_header")) \o PlanLines(rows)

\* main.go:224-225  plan section: header, explainQuery
ExplainPlan ==
    /\ pc = "explain"
    /\ calls' = Append(calls, "explain")
    /\ \E e \in BOOLEAN, rows \in PlanResults, iterErr \in BOOLEAN :
         /\ output' = explainQuery(Append(output, TextLine("plan_section")), e, rows)
         /\ failed' = failed
                      \cup (IF e THEN {"explain"} ELSE {})
                      \cup (IF ~e /\ \E i \in 1..Len(rows) : rows[i] = "scanerr"
                            THEN {"planscan"} ELSE {})
                      \cup (IF ~e /\ iterErr THEN {"planiter"} ELSE {})
    /\ pc' = "summary"
    /\ UNCHANGED <<userCount, count1, duration1, count2, duration2, count3, duration3,
                   count4, duration4, count5, duration5>>
    /\ UNCHANGED dataVars

\* main.go:227-234  summary: dataset size, average speedup, target achieved
Summary ==
    /\ pc = "summary"
    /\ LET head == Append(Append2(output, TextLine("summary"), TextLine("rule")),
                          DatasetLine("dataset_size", userCount))
       IN  output' = IF duration1 > 0 /\ duration2 > 0
                     THEN Append2(head,
                            AverageLine(Ratio(duration1 + duration3, duration2 + duration4)),
                            TargetLine(duration2 < Budget /\ duration4 < Budget))
                     ELSE head
    /\ pc' = "extrapolate"
    /\ UNCHANGED <<userCount, count1, duration1, count2, duration2, count3, duration3,
                   count4, duration4, count5, duration5, calls, failed>>
    /\ UNCHANGED dataVars

\* variant of Extrapolate: the guard admits a dataset of exactly the target size
Extrapolate_le_target ==
    /\ pc = "extrapolate"
    /\ IF userCount <= TargetUsers /\ duration2 > 0
       THEN LET scaleFactor == Ratio(TargetUsers, userCount)
            IN  IF scaleFactor.den = 0
                THEN \E s \in InfConversions :
                       output' = Append2(output, EstimateLine(0, s),
                                         VerdictLine(s = "minint64"))
                ELSE LET estimatedTime == TruncMul(duration2, scaleFactor)
                     IN  output' = Append2(output, EstimateLine(estimatedTime, "exact"),
                                           VerdictLine(estimatedTime < Budget))
       ELSE output' = output
    /\ pc' = "done"
    /\ UNCHANGED <<userCount, count1, duration1, count2, duration2, count3, duration3,
                   count4, duration4, count5, duration5, calls, failed>>
    /\ UNCHANGED dataVars

\* main.go:236-242  extrapolation to 10M users; then main returns
Extrapolate ==
    /\ pc = "extrapolate"
    /\ IF userCount < TargetUsers /\ duration2 > 0
       THEN LET scaleFactor == Ratio(TargetUsers, userCount)
            IN  IF scaleFactor.den = 0
                THEN \E s \in InfConversions :
                       output' = Append2(output, EstimateLine(0, s),
                                         VerdictLine(s = "minint64"))
                ELSE LET estimatedTime == TruncMul(duration2, scaleFactor)
                     IN  output' = Append2(output, EstimateLine(estimatedTime, "exact"),
                                           VerdictLine(estimatedTime < Budget))
       ELSE output' = output
    /\ pc' = "done"
    /\ UNCHANGED <<userCount, count1, duration1, count2, duration2, count3, duration3,
                   count4, duration4, count5, duration5, calls, failed>>
    /\ UNCHANGED dataVars

Next ==
    \/ ConnectDB
    \/ Ping
    \/ CountUsers
    \/ Test1EAV
    \/ Test1Optimized
    \/ Test1Speedup
    \/ Test2EAV
    \/ Test2Optimized
    \/ Test2Speedup
    \/ Test3Optimized
    \/ ExplainPlan
    \/ Summary
    \/ Extrapolate

Spec == Init /\ [][Next]_vars

(***************************************************************************)
(* init.sql: populate_test_data and the tables the queries read.           *)
(* Only the 'country' and 'tier' attribute rows are kept: the four         *)
(* queries compared by main.go read no other key or column.                *)
(***************************************************************************)
countries == <<"US", "UK", "DE", "FR", "JP", "AU", "CA", "BR", "IN">>
tiers     == <<"free", "free", "free", "free", "gold", "platinum">>

Range(s) == {s[i] : i \in DOMAIN s}

\* ordering of the text values under MAX()
TextOrder == <<"AU", "BR", "CA", "DE", "FR", "IN", "JP", "UK", "US",
               "free", "gold", "platinum">>
Rank(v) == CHOOSE i \in DOMAIN TextOrder : TextOrder[i] = v

\* MAX(CASE WHEN ua.key = k THEN ua.value END) over the rows of one user
MaxOfKey(rows, k) ==
    LET vals == {r.value : r \in {x \in rows : x.key = k}}
    IN  IF vals = {} THEN "NULL"
        ELSE CHOOSE v \in vals : \A w \in vals : Rank(w) <= Rank(v)

\* init.sql:66-90  the rows the loop inserts for users 1..n
InsertedAttributes(n, c, t) ==
    UNION {{[id |-> 5 * (i - 1) + 1, user_id |-> i, key |-> "country", value |-> c[i]],
            [id |-> 5 * (i - 1) + 2, user_id |-> i, key |-> "tier", value |-> t[i]]}
           : i \in 1..n}

\* init.sql:93-103  INSERT INTO user_profiles ... JOIN ... GROUP BY u.user_id
DerivedProfiles(us, uas) ==
    {[user_id |-> u,
      country |-> MaxOfKey({ua \in uas : ua.user_id = u}, "country"),
      tier    |-> MaxOfKey({ua \in uas : ua.user_id = u}, "tier")]
     : u \in {x \in us : \E ua \in uas : ua.user_id = x}}

\* init.sql:55-109  populate_test_data(num_users) on the empty schema
populate_test_data ==
    /\ dpc = "empty"
    /\ \E n \in 0..MaxUsers :
         \E c \in [1..n -> Range(countries)], t \in [1..n -> Range(tiers)] :
           /\ users' = users \cup 1..n
           /\ user_attributes' = user_attributes \cup InsertedAttributes(n, c, t)
           /\ user_profiles' = user_profiles \cup DerivedProfiles(users', user_attributes')
    /\ dpc' = "populated"
    /\ UNCHANGED results
    /\ UNCHANGED runVars

\* main.go:39-47  COUNT(DISTINCT u.user_id) ... EXISTS country = 'US'
oldEAVQuery ==
    Cardinality({u \in users :
        \E ua \in user_attributes :
            ua.user_id = u /\ ua.key = "country" /\ ua.value = "US"})

\* main.go:59-73  EXISTS country = 'US' OR EXISTS tier IN ('gold', 'platinum')
oldEAVComplexQuery ==
    Cardinality({u \in users :
        \/ \E ua1 \in user_attributes :
              ua1.user_id = u /\ ua1.key = "country" /\ ua1.value = "US"
        \/ \E ua2 \in user_attributes :
              ua2.user_id = u /\ ua2.key = "tier" /\ ua2.value \in {"gold", "platinum"}})

\* main.go:85-88  COUNT(*) FROM user_profiles WHERE country = 'US'
optimizedQuery ==
    Cardinality({p \in user_profiles : p.country = "US"})

\* variant of optimizedComplexQuery: the two predicates are joined by AND
optimizedComplexQuery_and ==
    Cardinality({p \in user_profiles :
        p.country = "US" /\ p.tier \in {"gold", "platinum"}})

\* main.go:100-104  WHERE country = 'US' OR tier IN ('gold', 'platinum')
optimizedComplexQuery ==
    Cardinality({p \in user_profiles :
        p.country = "US" \/ p.tier \in {"gold", "platinum"}})

\* the four counting queries, in the order main() issues them
RunQueries ==
    /\ dpc = "populated"
    /\ results' = [oldEAVQuery |-> oldEAVQuery,
                   optimizedQuery |-> optimizedQuery,
                   oldEAVComplexQuery |-> oldEAVComplexQuery,
                   optimizedComplexQuery |-> optimizedComplexQuery]
    /\ dpc' = "queried"
    /\ UNCHANGED <<users, user_attributes, user_profiles>>
    /\ UNCHANGED runVars

NextData ==
    \/ populate_test_data
    \/ RunQueries

SpecData == Init /\ [][NextData]_vars

(***************************************************************************)
(* Vocabulary of the properties                                            *)
(***************************************************************************)
PcOrder == <<"start", "ping", "count", "test1_eav", "test1_opt", "test1_speedup",
             "test2_eav", "test2_opt", "test2_speedup", "test3", "explain",
             "summary", "extrapolate", "done">>
PcIndex(p) == CHOOSE i \in DOMAIN PcOrder : PcOrder[i] = p
\* the step at position p has been taken
Past(p) == pc # "fatal" /\ PcIndex(pc) > PcIndex(p)

LinesOf(k) == {i \in DOMAIN output : output[i].kind = k}
SpeedupLinesOf(s) == {i \in LinesOf("speedup") : output[i].scenario = s}

\* the fraction r has the value a / b
IsQuotient(r, a, b) ==
    /\ r.num > 0 /\ r.den > 0
    /\ a % r.num = 0 /\ b % r.den = 0
    /\ a \div r.num = b \div r.den

TimedQueries == <<"oldEAVQuery", "optimizedQuery", "oldEAVComplexQuery",
                  "optimizedComplexQuery", "optimizedANDQuery">>
IsTimed(c) == \E i \in DOMAIN TimedQueries : TimedQueries[i] = c
IsQuery(c) == c \notin {"open", "ping"}
TimedCalls == SelectSeq(calls, IsTimed)

Arm1Failed == "oldEAVQuery" \in failed \/ "optimizedQuery" \in failed
Arm2Failed == "oldEAVComplexQuery" \in failed \/ "optimizedComplexQuery" \in failed
Defined1 == ~Arm1Failed /\ duration1 > 0 /\ duration2 > 0
Defined2 == ~Arm2Failed /\ duration3 > 0 /\ duration4 > 0

(***************************************************************************)
(* Properties                                                              *)
(***************************************************************************)

\* C1: in a scenario where the EAV arm or the optimized arm returned an
\* error, once the scenario's speedup step has run the output carries the
\* explicit undefined marker for that scenario and no numeric speedup line,
\* whatever durations the failed calls returned.
C1_FailedArmSpeedupUndefined ==
    /\ (Past("test1_speedup") /\ Arm1Failed) =>
          /\ SpeedupLinesOf(1) = {}
          /\ \E i \in LinesOf("speedup_undefined") : output[i].scenario = 1
    /\ (Past("test2_speedup") /\ Arm2Failed) =>
          /\ SpeedupLinesOf(2) = {}
          /\ \E i \in LinesOf("speedup_undefined") : output[i].scenario = 2

\* C2: in a scenario where both arms succeeded with strictly positive
\* durations, the reported speedup is the EAV duration divided by the
\* optimized duration of that same scenario (and it is reported once).
C2_SpeedupIsBaselineOverOptimized ==
    /\ (Past("test1_speedup") /\ Defined1) =>
          /\ Cardinality(SpeedupLinesOf(1)) = 1
          /\ \A i \in SpeedupLinesOf(1) : IsQuotient(output[i].value, duration1, duration2)
    /\ (Past("test2_speedup") /\ Defined2) =>
          /\ Cardinality(SpeedupLinesOf(2)) = 1
          /\ \A i \in SpeedupLinesOf(2) : IsQuotient(output[i].value, duration3, duration4)

C2_Witness ==
    /\ pc = "done"
    /\ Defined1 /\ Defined2
    /\ SpeedupLinesOf(1) # {} /\ SpeedupLinesOf(2) # {}

C4_EstimateAndVerdict ==
    (pc = "done" /\ 0 < userCount /\ userCount < TargetUsers /\ duration2 > 0) =>
        \A i \in LinesOf("estimate") :
            LET est == output[i].value
                g   == GCD(TargetUsers, userCount)
                num == TargetUsers \div g
                den == userCount \div g
            IN  /\ output[i].sat = "exact"
                /\ est * den <= duration2 * num
                /\ duration2 * num < (est + 1) * den
                /\ i + 1 \in LinesOf("verdict")
                /\ output[i + 1].value = (est < 2 * Second)
                /\ (userCount = 100000 /\ duration2 = 19000000) =>
                      (est = 1900000000 /\ output[i + 1].value = TRUE)
                /\ est = 2 * Second => output[i + 1].value = FALSE

C4_Witness ==
    /\ pc = "done"
    /\ userCount = 100000
    /\ duration2 = 20000000
    /\ \E i \in LinesOf("estimate") : output[i].value = 2 * Second

\* C5: no query is issued before the ping has succeeded; when opening the
\* connection or the ping fails the run ends fatally, with a single attempt
\* of each, no query issued and no measurement printed.
C5_NoQueryBeforePing ==
    /\ \A i \in DOMAIN calls :
          IsQuery(calls[i]) =>
             /\ \E j \in 1..(i - 1) : calls[j] = "ping"
             /\ "ping" \notin failed
             /\ "open" \notin failed
    /\ ("open" \in failed \/ "ping" \in failed) =>
          /\ pc = "fatal"
          /\ \A i \in DOMAIN calls : ~IsQuery(calls[i])
          /\ LinesOf("measure") = {} /\ LinesOf("dataset") = {}
          /\ LinesOf("speedup") = {} /\ LinesOf("estimate") = {}
    /\ Cardinality({i \in DOMAIN calls : calls[i] = "open"}) <= 1
    /\ Cardinality({i \in DOMAIN calls : calls[i] = "ping"}) <= 1

C5_Witness ==
    /\ pc = "fatal"
    /\ "ping" \in failed
    /\ calls = <<"open", "ping">>

\* C6: in a run that passed the ping, the timed queries issued so far are a
\* prefix of EAV simple, optimized simple, EAV OR, optimized OR, optimized
\* AND, and once the third test has run all five have been issued exactly
\* once in that order, whichever of them failed.
C6_FiveTimedQueriesInOrder ==
    /\ Len(TimedCalls) <= Len(TimedQueries)
    /\ \A i \in DOMAIN TimedCalls : TimedCalls[i] = TimedQueries[i]
    /\ Past("test1_eav") => Len(TimedCalls) >= 1
    /\ Past("test1_opt") => Len(TimedCalls) >= 2
    /\ Past("test2_eav") => Len(TimedCalls) >= 3
    /\ Past("test2_opt") => Len(TimedCalls) >= 4
    /\ Past("test3") => TimedCalls = TimedQueries

C6_Witness ==
    /\ pc = "done"
    /\ {"oldEAVQuery", "oldEAVComplexQuery", "optimizedComplexQuery"} \subseteq failed
    /\ "optimizedQuery" \notin failed
    /\ TimedCalls = TimedQueries

\* C7: every failure that occurred during the run (open, ping, dataset-size
\* count, each timed query, the plan query, scanning or iterating plan rows)
\* has produced an output line naming it.
C7_EveryFailureHasALine ==
    \A f \in failed : \E i \in LinesOf("error") : output[i].what = f

\* C8: the reported average speedup aggregates only the scenarios whose
\* speedup is defined: with no defined scenario no average is reported, and
\* with exactly one defined scenario the average is that scenario's speedup.
C8_AverageOverDefinedScenarios ==
    Past("summary") =>
        /\ (~Defined1 /\ ~Defined2) => LinesOf("average") = {}
        /\ (Defined1 /\ ~Defined2) =>
              \A i \in LinesOf("average") : IsQuotient(output[i].value, duration1, duration2)
        /\ (~Defined1 /\ Defined2) =>
              \A i \in LinesOf("average") : IsQuotient(output[i].value, duration3, duration4)

\* C9: on every dataset produced by populate_test_data the EAV query and the
\* optimized query return the same count, for the simple country = 'US'
\* scenario and for the OR scenario.
C9_EAVAndOptimizedCountsAgree ==
    dpc = "queried" =>
        /\ results.oldEAVQuery = results.optimizedQuery
        /\ results.oldEAVComplexQuery = results.optimizedComplexQuery

C9_Witness ==
    /\ dpc = "queried"
    /\ Cardinality(users) = 2
    /\ results.optimizedQuery = 1
    /\ results.optimizedComplexQuery = 2

\* C10: an estimate for 10M users is reported only if the dataset-size
\* count query succeeded and returned a value greater than 0.
C10_EstimateNeedsPositiveCount ==
    LinesOf("estimate") # {} => ("count" \notin failed /\ userCount > 0)

====
